---- MODULE Spec2Model ----
(***************************************************************************)
(* gulp-watchify: a Transform stream that bundles entry files with         *)
(* browserify/watchify and re-emits bundles of updated entries through a   *)
(* debounced ReBundle stream.                                              *)
(*                                                                         *)
(* The repository holds three revisions of the plugin; the variable ver    *)
(* selects the one that runs (Spec, SpecWatch: part_000; SpecIndex*;       *)
(* SpecPart001; SpecAll, SpecBuild: any of the three):                     *)
(*   "index.js"  src/index.js          (timer ends the stream directly)    *)
(*   "part_001"  src/unnamed/part_001  (skipUpdateError, timer ends)       *)
(*   "part_000"  src/unnamed/part_000  (registerAsync / finishIfResolved)  *)
(*                                                                         *)
(* Environment: node's object-mode Transform.  One _transform runs at a    *)
(* time per stream; chunks written meanwhile are buffered and the next one *)
(* is started synchronously inside done().  done(err) reports the error    *)
(* and does not start the next buffered chunk.  Bundle callbacks and the   *)
(* timer callback run asynchronously, each as one step.  A writer piped    *)
(* into the main stream stops writing once the stream reported an error.   *)
(* A bundler emits 'update' for changes of the files its first bundle read, *)
(* that is after its first bundle callback.                                *)
(***************************************************************************)
EXTENDS Integers, Sequences, FiniteSets, TLC

\* ---------------------------------------------------------------- bounds
MaxEntries == 2
MaxUpdates == 2

\* ------------------------------------------------------------- JS values
Undefined == "undefined"
JSBool == {"true", "false"}
OptionValues == {Undefined, "true", "false"}
Versions == {"index.js", "part_001", "part_000"}

\* typeof v === 'boolean'
IsBoolean(v) == v \in JSBool
\* JS truthiness of the values the model uses
Truthy(v) == v \notin {Undefined, "false", "", "null"}

\* entry files (vinyl files) the environment can write
FileA == [path |-> "a.js", base |-> "js", cwd |-> "/w"]
FileB == [path |-> "b.js", base |-> "lib", cwd |-> "/v"]
FileNoPath == [path |-> Undefined, base |-> "lib", cwd |-> "/v"]
EntryFiles == {FileA, FileB, FileNoPath}
Paths == {f.path : f \in EntryFiles}

NoFile == [contents |-> Undefined, base |-> Undefined, cwd |-> Undefined, path |-> Undefined]

VARIABLES
    ver,              \* revision of the plugin that runs
    self,             \* the GulpWatchify properties the constructor sets from its
                      \*   options: watch, bundler (_bundler), rebundle (_rebundle),
                      \*   skipUpdateError (_skipUpdateError), skipError (_skipError)
    written,          \* main stream: chunks written, each with its transform state
                      \*   and the bundler its _transform created
    out,              \* main stream: log of push() calls, each with the chunk whose
                      \*   callback made it
    ending,           \* main stream: end() was called
    bundlers,         \* this._bundlers : property name -> bundler (0 = no such property)
    streams,          \* every ReBundle stream created so far
    rebundleStream,   \* this._rebundleStream (0 = null/undefined)
    rebundleTimeout,  \* this._rebundleTimeout: handle of the timer armed last
                      \*   (0 = undefined)
    timers,           \* the timers armed with setTimeout that neither fired nor were
                      \*   cleared, each with its handle and the stream its callback
                      \*   closes over
    updated,          \* the bundlers that emitted 'update', in order
    events            \* log of the emit(), new ReBundle and write() calls of the update
                      \*   handler and of the runs of the timer callback

vars == <<ver, self, written, out, ending, bundlers, streams,
          rebundleStream, rebundleTimeout, timers, updated, events>>

\* ------------------------------------------------------- pure functions

\* new Buffer(source)
NewBuffer(source) == <<"Buffer", source>>

\* the source a bundler hands to its bundle() callback
BundleSource(b) == <<"bundle", b>>

\* new PluginError('gulp-watchify', e)
PluginError(e) == <<"PluginError", "gulp-watchify", e>>

\* mutant: base and cwd taken from the wrong properties
createBundleFileSwapped(srcFile, source) ==
    [contents |-> NewBuffer(source),
     base |-> srcFile.cwd,
     cwd |-> srcFile.base,
     path |-> srcFile.path]

createBundleFile(srcFile, source) ==
    [contents |-> NewBuffer(source),
     base |-> srcFile.base,
     cwd |-> srcFile.cwd,
     path |-> srcFile.path]

\* --------------------------------------------------- constructor fields

\* this.watch
WatchField(o) == IF IsBoolean(o.watch) THEN o.watch ELSE "true"

\* this._bundler when options.Bundler is not supplied
BundlerFactory(o) == IF Truthy(o.watch) THEN "watchify" ELSE "browserify"

\* mutant: the rebundle option is ignored
RebundleFieldAlways(v, o) == "true"

\* this._rebundle
RebundleField(v, o) ==
    IF v = "index.js"
    THEN IF IsBoolean(o.skipError) THEN o.rebundle ELSE "true"
    ELSE IF IsBoolean(o.rebundle) THEN o.rebundle ELSE "true"

\* GulpWatchify this._skipUpdateError (part_000, part_001)
SkipUpdateErrorField(o) ==
    IF IsBoolean(o.skipUpdateError) THEN o.skipUpdateError ELSE "true"

\* AbstractBundleStream this._skipError (index.js)
SkipErrorField(o) == IF IsBoolean(o.skipError) THEN o.skipError ELSE "true"

\* the option objects a constructor call can be given
Options == [watch : OptionValues, rebundle : OptionValues,
            skipUpdateError : OptionValues, skipError : OptionValues]

\* function GulpWatchify(options): the properties the model keeps
GulpWatchify(v, o) ==
    [watch |-> WatchField(o),
     bundler |-> BundlerFactory(o),
     rebundle |-> RebundleField(v, o),
     skipUpdateError |-> IF v = "index.js" THEN Undefined ELSE SkipUpdateErrorField(o),
     skipError |-> IF v = "index.js" THEN SkipErrorField(o) ELSE Undefined]

\* mutant: skipUpdateError is not handed to the ReBundle stream
ReBundleOptionsDropped(v, g) == [skipUpdateError |-> Undefined, skipError |-> Undefined]

\* the options object _handleUpdate hands to new ReBundle; index.js reads
\* self.skipError, a property that is never set
ReBundleOptions(v, g) ==
    IF v = "index.js"
    THEN [skipUpdateError |-> Undefined, skipError |-> Undefined]
    ELSE [skipUpdateError |-> g.skipUpdateError, skipError |-> Undefined]

\* whether a ReBundle stream skips bundle errors
ReBundleSkip(v, ro) ==
    IF v = "index.js" THEN SkipErrorField(ro) ELSE SkipUpdateErrorField(ro)

\* --------------------------------------------------------- stream helpers

\* push(null) and push(file)
EOF == [eof |-> TRUE, file |-> NoFile, chunk |-> 0]
PushFile(f, i) == [eof |-> FALSE, file |-> f, chunk |-> i]

Indices(s) == 1..Len(s)
Min(S) == CHOOSE x \in S : \A y \in S : x <= y
Max(S) == CHOOSE x \in S : \A y \in S : x >= y

\* chunks whose _transform awaits its bundle callback
Bundling(ws) == {i \in Indices(ws) : ws[i].st = "bundling"}
\* chunks waiting in the writable buffer
Buffered(ws) == {i \in Indices(ws) : ws[i].st = "buffered"}
\* the buffered chunk node hands to _transform next
NextBuffered(ws) == Min(Buffered(ws))
\* chunks whose done() was called with an error
Failed(ws) == {i \in Indices(ws) : ws[i].st \in {"err", "invalid"}}

HasEOF(log) == \E i \in Indices(log) : log[i].eof
Files(log) == SelectSeq(log, LAMBDA x : ~x.eof)
Count(log, P(_)) == Cardinality({i \in Indices(log) : P(log[i])})

NoError == <<>>

\* a chunk accepted by write(), before its _transform ran
NewChunk(f) == [file |-> f, st |-> "buffered", bundler |-> 0, err |-> NoError, dones |-> 0]

\* bundlers created so far (one per _transform call that passed the path check)
BundlersOf(ws) == {ws[i].bundler : i \in Indices(ws)} \ {0}
\* the written chunk whose _transform created bundler b
EntryOf(b) == CHOOSE i \in Indices(written) : written[i].bundler = b
NumUpdates == Count(events, LAMBDA e : e.type = "update")

\* ----------------------------------------------------- main stream steps
\* m is the pair [ws |-> written, reg |-> this._bundlers]

\* done(err): the chunk's write completes with an error
DoneError(ws, i, st, e) == [ws EXCEPT ![i].st = st, ![i].err = e, ![i].dones = @ + 1]

\* mutant: the path check is missing
TransformUnchecked(m, i) ==
    LET srcFile == m.ws[i].file
        bundler == Cardinality(BundlersOf(m.ws)) + 1 IN
    [ws |-> [m.ws EXCEPT ![i].st = "bundling", ![i].bundler = bundler],
     reg |-> [m.reg EXCEPT ![srcFile.path] = bundler]]

\* GulpWatchify.prototype._transform, up to the call of bundler.bundle
Transform(m, i) ==
    LET srcFile == m.ws[i].file IN
    IF ~Truthy(srcFile.path)
    THEN [m EXCEPT !.ws = DoneError(m.ws, i, "invalid",
                                    PluginError(<<"Expected a source file with a path">>))]
    ELSE LET bundler == Cardinality(BundlersOf(m.ws)) + 1 IN
         [ws |-> [m.ws EXCEPT ![i].st = "bundling", ![i].bundler = bundler],
          reg |-> [m.reg EXCEPT ![srcFile.path] = bundler]]

\* node's clearBuffer: hand buffered chunks to _transform until one of them
\* is waiting for its callback
RECURSIVE ClearBuffer(_)
ClearBuffer(m) ==
    IF Buffered(m.ws) = {} THEN m
    ELSE LET t == Transform(m, NextBuffered(m.ws)) IN
         IF Bundling(t.ws) # {} THEN t ELSE ClearBuffer(t)

\* done() without an error on the main stream: the write completes and the
\* buffer is cleared
Done(m, i, st) ==
    ClearBuffer([m EXCEPT !.ws[i].st = st, !.ws[i].dones = @ + 1])

\* node: 'finish' is emitted when end() was called and nothing is buffered or
\* being written; _flush then calls done(), which pushes null
Flush(log) == Append(log, EOF)
\* mutant: the stream finishes as soon as end() was called
NeedFinishEarly(e, ws) == e
NeedFinish(e, ws) == e /\ Buffered(ws) = {} /\ Bundling(ws) = {}

\* -------------------------------------------------------- ReBundle steps

registerAsync(s) == [s EXCEPT !.unresolvedAsyncs = @ + 1]

finishIfResolved(s) ==
    LET d == [s EXCEPT !.unresolvedAsyncs = @ - 1] IN
    IF d.unresolvedAsyncs = 0 THEN [d EXCEPT !.out = Append(@, EOF)] ELSE d

\* new ReBundle(bundlerInstance, options)
NewReBundle(v, bundlerInstance, ro) ==
    [bundlerInstance |-> bundlerInstance,
     skip |-> ReBundleSkip(v, ro),
     unresolvedAsyncs |-> 0,
     writes |-> <<>>,
     out |-> <<>>,
     timerFired |-> FALSE]

\* mutant: the bundle call is not registered
ReTransformUnregistered(v, s, k) == [s EXCEPT !.writes[k].st = "bundling"]

\* ReBundle.prototype._transform, up to the return of the call
ReTransform(v, s, k) ==
    LET t == [s EXCEPT !.writes[k].st = "bundling"] IN
    IF v = "part_000" THEN registerAsync(t) ELSE t

\* rebundle.write(srcFile)
StreamWrite(v, s, srcFile) ==
    LET k == Len(s.writes) + 1
        t == [s EXCEPT !.writes = Append(@, NewChunk(srcFile))]
    IN IF Bundling(s.writes) = {} THEN ReTransform(v, t, k) ELSE t

\* mutant: done() does not hand the next buffered chunk to _transform
ReDoneKeepsBuffer(v, s, k, st) ==
    [s EXCEPT !.writes[k].st = st, !.writes[k].dones = @ + 1]

\* done() without an error on a ReBundle stream
ReDone(v, s, k, st) ==
    LET t == [s EXCEPT !.writes[k].st = st, !.writes[k].dones = @ + 1] IN
    IF Buffered(t.writes) = {} THEN t ELSE ReTransform(v, t, NextBuffered(t.writes))

\* done(new PluginError('gulp-watchify', err)) on a ReBundle stream
ReDoneError(s, k, e) == [s EXCEPT !.writes = DoneError(@, k, "err", e)]

\* mutant: _handleError returns true, as its doc comment announces
handleErrorReturnsTrue(skip) == "true"

\* what AbstractBundleStream.prototype._handleError (index.js) returns: both
\* of its paths end without a value
handleErrorReturn(skip) == Undefined

\* the rest of a bundle callback of a ReBundle stream, after its error
\* check: push the bundle file, then done()
PushAndDone(v, s, k, source) ==
    LET file == createBundleFile(s.writes[k].file, source)
        p == [s EXCEPT !.out = Append(@, PushFile(file, k))]
    IN ReDone(v, p, k, "ok")

\* the callback ReBundle.prototype._transform hands to bundle(); in index.js
\* the callback goes on after _handleError when that returns a truthy value
\* (source is then undefined)
ReBundleCallbackResult(v, s, k, err) ==
    IF err # NoError
    THEN LET handled == IF ~Truthy(s.skip)
                        THEN ReDoneError(s, k, PluginError(err))
                        ELSE ReDone(v, s, k, "skipped")
         IN IF v = "index.js"
            THEN IF Truthy(handleErrorReturn(s.skip))
                 THEN PushAndDone(v, handled, k, Undefined)
                 ELSE handled
            ELSE IF v = "part_000" /\ Truthy(s.skip)
                 THEN finishIfResolved(handled)
                 ELSE handled
    ELSE LET t == PushAndDone(v, s, k, BundleSource(s.bundlerInstance))
         IN IF v = "part_000" THEN finishIfResolved(t) ELSE t

\* the callback _handleUpdate hands to setTimeout
TimeoutResult(v, s) ==
    LET t == [s EXCEPT !.timerFired = TRUE] IN
    IF v = "part_000" THEN finishIfResolved(t) ELSE [t EXCEPT !.out = Append(@, EOF)]

Event(type, file, bundler, stream) ==
    [type |-> type, file |-> file, bundler |-> bundler, stream |-> stream]

\* mutant: every update creates a stream
NoStreamAlways(rebundle) == TRUE

\* if (!rebundle)
NoStream(rebundle) == rebundle = 0

\* mutant: clearTimeout is not called
clearTimeoutMissing(ts, handle) == ts

\* clearTimeout(handle): the timer with that handle, if still pending, is
\* cancelled
clearTimeout(ts, handle) == {t \in ts : t.handle # handle}

\* setTimeout(callback, delay) with a callback that closes over stream: the
\* timer is pending under a handle
setTimeout(ts, handle, stream) == ts \cup {[handle |-> handle, stream |-> stream]}

\* mutant: 'rebundle' is emitted after the write
HandleUpdateCallsLateEmit(fresh, srcFile, bundler, id) ==
    IF fresh
    THEN <<Event("new", srcFile, bundler, id),
           Event("write", srcFile, bundler, id),
           Event("rebundle", srcFile, bundler, id)>>
    ELSE <<Event("write", srcFile, bundler, id)>>

\* the calls _handleUpdate makes on and for the stream, in program order:
\* new ReBundle and emit('rebundle') when there was no open stream, then
\* write
HandleUpdateCalls(fresh, srcFile, bundler, id) ==
    IF fresh
    THEN <<Event("new", srcFile, bundler, id),
           Event("rebundle", srcFile, bundler, id),
           Event("write", srcFile, bundler, id)>>
    ELSE <<Event("write", srcFile, bundler, id)>>

\* GulpWatchify.prototype._handleUpdate, as the new values of
\* <<streams, _rebundleStream, _rebundleTimeout, timers, events>>; timer
\* handles are numbered in the order of the setTimeout calls
HandleUpdate(v, g, h, srcFile, bundler) ==
    IF ~Truthy(g.rebundle) THEN h
    ELSE LET fresh == NoStream(h.cur)
             id == IF fresh THEN Len(h.ss) + 1 ELSE h.cur
             made == NewReBundle(v, bundler, ReBundleOptions(v, g))
             s0 == IF fresh
                   THEN (IF v = "part_000" THEN registerAsync(made) ELSE made)
                   ELSE h.ss[id]
             s1 == StreamWrite(v, s0, srcFile)
             handle == h.timer + 1
         IN [ss |-> IF fresh THEN Append(h.ss, s1) ELSE [h.ss EXCEPT ![id] = s1],
             cur |-> id,
             timer |-> handle,
             timers |-> setTimeout(clearTimeout(h.timers, h.timer), handle, id),
             ev |-> h.ev \o HandleUpdateCalls(fresh, srcFile, bundler, id)]

\* mutant: 'update' is emitted after _handleUpdate ran
UpdateHandlerEmitLast(v, g, h, srcFile, bundler) ==
    LET r == HandleUpdate(v, g, h, srcFile, bundler) IN
    [r EXCEPT !.ev = Append(@, Event("update", srcFile, bundler, 0))]

\* the listener _transform registers for the bundler's 'update' event
UpdateHandler(v, g, h, srcFile, bundler) ==
    HandleUpdate(v, g, [h EXCEPT !.ev = Append(@, Event("update", srcFile, bundler, 0))],
                 srcFile, bundler)

\* mutant: a first-bundle error is skipped when errors are to be skipped
FirstBundleFatalSkippable(v, g) ==
    IF v = "index.js" THEN ~Truthy(g.skipError) ELSE ~Truthy(g.skipUpdateError)

\* whether firstBundleCallback hands an error to done: index.js leaves it to
\* _handleError, the later revisions always do
FirstBundleFatal(v, g) ==
    IF v = "index.js" THEN ~Truthy(g.skipError) ELSE TRUE

Error == <<"Error", "bundle failed">>
Outcomes == {NoError, Error}

\* ------------------------------------------------------------------ Init

\* the state after new GulpWatchify(options) of revision v
Constructed(v) ==
    /\ ver = v
    /\ \E o \in Options : self = GulpWatchify(ver, o)
    /\ written = <<>>
    /\ out = <<>>
    /\ ending = FALSE
    /\ bundlers = [p \in Paths |-> 0]
    /\ streams = <<>>
    /\ rebundleStream = 0
    /\ rebundleTimeout = 0
    /\ timers = {}
    /\ updated = <<>>
    /\ events = <<>>

\* --------------------------------------------------------------- actions

\* stream.write(f) on the GulpWatchify stream
Write(f) ==
    /\ Len(written) < MaxEntries
    /\ ~ending
    /\ Failed(written) = {}
    /\ LET i == Len(written) + 1
           m == [ws |-> Append(written, NewChunk(f)), reg |-> bundlers]
           r == IF Bundling(written) = {} THEN Transform(m, i) ELSE m
       IN /\ written' = r.ws
          /\ bundlers' = r.reg
    /\ UNCHANGED <<ver, self, out, ending, streams, rebundleStream,
                   rebundleTimeout, timers, updated, events>>

\* stream.end() on the GulpWatchify stream
End ==
    /\ ~ending
    /\ Failed(written) = {}
    /\ ending' = TRUE
    /\ out' = IF NeedFinish(TRUE, written) THEN Flush(out) ELSE out
    /\ UNCHANGED <<ver, self, written, bundlers, streams, rebundleStream,
                   rebundleTimeout, timers, updated, events>>

\* firstBundleCallback(err, source)
FirstBundleCallback(err) ==
    /\ Bundling(written) # {}
    /\ LET i == CHOOSE j \in Bundling(written) : TRUE
           srcFile == written[i].file
           m == [ws |-> written, reg |-> bundlers]
           fatal == FirstBundleFatal(ver, self)
       IN IF err # NoError
          THEN IF fatal
               THEN /\ written' = DoneError(written, i, "err", PluginError(err))
                    /\ UNCHANGED <<bundlers, out>>
               ELSE LET r == Done(m, i, "skipped") IN
                    /\ written' = r.ws
                    /\ bundlers' = r.reg
                    /\ out' = IF NeedFinish(ending, [written EXCEPT ![i].st = "skipped"])
                              THEN Flush(out) ELSE out
          ELSE LET file == createBundleFile(srcFile, BundleSource(written[i].bundler))
                   pushed == Append(out, PushFile(file, i))
                   r == Done(m, i, "ok")
               IN /\ written' = r.ws
                  /\ bundlers' = r.reg
                  /\ out' = IF NeedFinish(ending, [written EXCEPT ![i].st = "ok"])
                            THEN Flush(pushed) ELSE pushed
    /\ UNCHANGED <<ver, self, ending, streams, rebundleStream,
                   rebundleTimeout, timers, updated, events>>

\* the bundler's 'update' handler: emit('update'), then _handleUpdate
Update(b) ==
    /\ b \in BundlersOf(written)
    /\ written[EntryOf(b)].st # "bundling"
    /\ self.bundler = "watchify"
    /\ Len(updated) < MaxUpdates
    /\ updated' = Append(updated, b)
    /\ LET srcFile == written[EntryOf(b)].file
           h == [ss |-> streams, cur |-> rebundleStream, timer |-> rebundleTimeout,
                 timers |-> timers, ev |-> events]
           r == UpdateHandler(ver, self, h, srcFile, b)
       IN /\ streams' = r.ss
          /\ rebundleStream' = r.cur
          /\ rebundleTimeout' = r.timer
          /\ timers' = r.timers
          /\ events' = r.ev
    /\ UNCHANGED <<ver, self, written, out, ending, bundlers>>

\* the callback of a ReBundle stream's bundle() call
ReBundleCallback(id, err) ==
    /\ id \in Indices(streams)
    /\ Bundling(streams[id].writes) # {}
    /\ LET k == CHOOSE j \in Bundling(streams[id].writes) : TRUE IN
       streams' = [streams EXCEPT ![id] = ReBundleCallbackResult(ver, @, k, err)]
    /\ UNCHANGED <<ver, self, written, out, ending, bundlers, rebundleStream,
                   rebundleTimeout, timers, updated, events>>

\* mutant: the timer callback leaves this._rebundleStream set
TimeoutKeepsStream ==
    /\ \E t \in timers :
          /\ streams' = [streams EXCEPT ![t.stream] = TimeoutResult(ver, @)]
          /\ timers' = timers \ {t}
          /\ events' = Append(events, Event("timeout", NoFile, 0, t.stream))
    /\ UNCHANGED <<ver, self, written, out, ending, bundlers, rebundleStream,
                   rebundleTimeout, updated>>

\* a pending timer fires: its callback runs on the stream it closes over and
\* resets this._rebundleStream; this._rebundleTimeout keeps the handle
Timeout ==
    /\ \E t \in timers :
          /\ streams' = [streams EXCEPT ![t.stream] = TimeoutResult(ver, @)]
          /\ timers' = timers \ {t}
          /\ events' = Append(events, Event("timeout", NoFile, 0, t.stream))
    /\ rebundleStream' = 0
    /\ UNCHANGED <<ver, self, written, out, ending, bundlers, rebundleTimeout,
                   updated>>

Next ==
    \/ \E f \in EntryFiles : Write(f)
    \/ End
    \/ \E e \in Outcomes : FirstBundleCallback(e)
    \/ \E b \in 1..MaxEntries : Update(b)
    \/ \E id \in 1..MaxUpdates : \E e \in Outcomes : ReBundleCallback(id, e)
    \/ Timeout

\* src/unnamed/part_000, the latest revision
Init == Constructed("part_000")
Spec == Init /\ [][Next]_vars

\* src/unnamed/part_000 created with a truthy watch option: the bundlers are
\* watchify instances, which emit 'update'
InitWatch == Init /\ self.bundler = "watchify"
SpecWatch == InitWatch /\ [][Next]_vars

\* src/index.js
InitIndex == Constructed("index.js")
SpecIndex == InitIndex /\ [][Next]_vars

\* src/index.js created with skipError false: _handleError hands the errors
\* of first bundles to done, while the ReBundle streams, which are not given
\* the option, skip theirs
InitIndexStrict == InitIndex /\ self.skipError = "false"
SpecIndexStrict == InitIndexStrict /\ [][Next]_vars

\* src/unnamed/part_001
InitPart001 == Constructed("part_001")
SpecPart001 == InitPart001 /\ [][Next]_vars

\* any of the three revisions
InitAll == \E v \in Versions : Constructed(v)
SpecAll == InitAll /\ [][Next]_vars

\* any of the three revisions while no bundler emits 'update': the steps of
\* the GulpWatchify stream itself
NextBuild ==
    \/ \E f \in EntryFiles : Write(f)
    \/ End
    \/ \E e \in Outcomes : FirstBundleCallback(e)
SpecBuild == InitAll /\ [][NextBuild]_vars

\* ------------------------------------------------------------ properties

IsFile(x) == ~x.eof
\* the push(file) calls of a log that were made by the callback of chunk i
PushesFor(log, i) == {j \in Indices(log) : IsFile(log[j]) /\ log[j].chunk = i}
\* push(file) calls made after a push(null)
LatePushes(log) ==
    {j \in Indices(log) : IsFile(log[j]) /\ \E e \in 1..(j - 1) : log[e].eof}
NumEOF(log) == Count(log, LAMBDA x : x.eof)

EventsOf(type) == SelectSeq(events, LAMBDA e : e.type = type)
\* the write() calls _handleUpdate made on stream id, in order
WritesTo(id) == SelectSeq(events, LAMBDA e : e.type = "write" /\ e.stream = id)
\* position of the last event of a type in the log (0 = none)
LastEvent(type) ==
    LET S == {j \in Indices(events) : events[j].type = type} IN
    IF S = {} THEN 0 ELSE Max(S)
FirstEvent(type) ==
    LET S == {j \in Indices(events) : events[j].type = type} IN
    IF S = {} THEN 0 ELSE Min(S)

\* C1: every entry with a non-empty path whose first bundle call succeeded
\* has exactly one file pushed on the main stream, with the entry's path,
\* base and cwd and with the source of the bundler created for that entry
\* as contents; no other file is pushed.
C1_FirstBundleOutput ==
    /\ \A i \in Indices(written) :
          written[i].st = "ok" =>
             /\ Truthy(written[i].file.path)
             /\ written[i].bundler # 0
             /\ Cardinality(PushesFor(out, i)) = 1
             /\ \A j \in PushesFor(out, i) :
                   /\ out[j].file.path = written[i].file.path
                   /\ out[j].file.base = written[i].file.base
                   /\ out[j].file.cwd = written[i].file.cwd
                   /\ out[j].file.contents = NewBuffer(BundleSource(written[i].bundler))
    /\ \A j \in Indices(out) :
          IsFile(out[j]) => out[j].chunk \in Indices(written)
                            /\ written[out[j].chunk].st = "ok"

\* two entries with different paths, bases and cwds were both bundled
C1_Witness ==
    /\ Len(written) = 2
    /\ written[1].st = "ok" /\ written[2].st = "ok"
    /\ written[1].file = FileA /\ written[2].file = FileB
    /\ Len(Files(out)) = 2

\* C2: with rebundling on, as long as no debounce timer fired before an
\* update, all updates share one ReBundle stream: one stream was created, one
\* 'rebundle' event was emitted, and the stream was written the entry file
\* of every update, in order.
C2_Coalesced ==
    (/\ Truthy(self.rebundle)
     /\ NumUpdates >= 1
     /\ (FirstEvent("timeout") = 0 \/ FirstEvent("timeout") > LastEvent("update")))
    => /\ Len(streams) = 1
       /\ Len(EventsOf("rebundle")) = 1
       /\ EventsOf("rebundle")[1].stream = 1
       /\ Len(streams[1].writes) = NumUpdates
       /\ \A k \in 1..NumUpdates :
             streams[1].writes[k].file = EventsOf("update")[k].file

\* two updates of different entries arrived before the timer fired
C2_Witness ==
    /\ Truthy(self.rebundle)
    /\ NumUpdates = 2
    /\ EventsOf("update")[1].file # EventsOf("update")[2].file
    /\ Len(streams) = 1
    /\ Len(streams[1].writes) = 2

\* C3: every file a ReBundle stream pushes has as contents the source of the
\* bundler whose update wrote that file's entry to the stream (the bundler
\* created for the entry and registered under its path), also when updates
\* of different entry files share the stream.
C3_OwnBundler ==
    (/\ ver = "part_000"
     /\ \A i, j \in Indices(written) : i # j => written[i].file.path # written[j].file.path)
    => \A id \in Indices(streams) :
          \A j \in Indices(streams[id].out) :
             IsFile(streams[id].out[j]) =>
                /\ streams[id].out[j].file.contents =
                      NewBuffer(BundleSource(WritesTo(id)[streams[id].out[j].chunk].bundler))
                /\ streams[id].out[j].file.contents =
                      NewBuffer(BundleSource(bundlers[streams[id].out[j].file.path]))

\* C4: in part_000 a ReBundle stream has pushed null only if its timer
\* callback has run and none of its bundle calls awaits its callback; no
\* file is pushed after null, and null is pushed at most once.
C4_EndOnlyWhenResolved ==
    ver = "part_000" =>
       \A id \in Indices(streams) :
          /\ HasEOF(streams[id].out) =>
                streams[id].timerFired /\ Bundling(streams[id].writes) = {}
          /\ LatePushes(streams[id].out) = {}
          /\ NumEOF(streams[id].out) <= 1

\* a part_000 stream pushed null after its timer fired and both of its
\* bundle calls had pushed their file
C4_Witness ==
    /\ ver = "part_000"
    /\ \E id \in Indices(streams) :
          /\ HasEOF(streams[id].out)
          /\ streams[id].timerFired
          /\ Len(streams[id].writes) = 2
          /\ Len(Files(streams[id].out)) = 2

\* C5: in part_000 a ReBundle stream whose timer callback has run and whose
\* bundle calls have all invoked their callback has pushed null, whether the
\* callbacks reported success or an error and for either skipUpdateError.
\* (Once the timer ran the stream gets no more writes, so a stream in that
\* state without a pushed null never ends.)
C5_EndsWhenResolved ==
    ver = "part_000" =>
       \A id \in Indices(streams) :
          (streams[id].timerFired /\ Bundling(streams[id].writes) = {})
          => HasEOF(streams[id].out)

\* C6: on the main stream files are pushed in the order their entries were
\* written, at most one first-bundle call awaits its callback, and null is
\* pushed only when every written entry had its first-bundle callback (or
\* was rejected) and nothing is pushed after it.
C6_MainStreamOrder ==
    /\ \A j1, j2 \in Indices(out) :
          (j1 < j2 /\ IsFile(out[j1]) /\ IsFile(out[j2])) => out[j1].chunk < out[j2].chunk
    /\ Cardinality(Bundling(written)) <= 1
    /\ HasEOF(out) =>
          /\ \A i \in Indices(written) : written[i].st \notin {"buffered", "bundling"}
          /\ out[Len(out)].eof
          /\ NumEOF(out) = 1

\* both entries were bundled, the second after waiting for the first, and
\* the stream ended
C6_Witness ==
    /\ Len(written) = 2
    /\ written[1].st = "ok" /\ written[2].st = "ok"
    /\ ending
    /\ HasEOF(out)
    /\ Len(Files(out)) = 2

\* C7: without a custom Bundler the factory _transform creates bundlers with
\* is browserify when options.watch is false and watchify when it is true or
\* omitted, in step with this.watch, which defaults to true.
C7_WatchDefault ==
    \A o \in Options :
       (self = GulpWatchify(ver, o) /\ BundlersOf(written) # {}) =>
          /\ o.watch = "false" => self.bundler = "browserify"
          /\ o.watch # "false" => self.bundler = "watchify"
          /\ (self.watch = "true") <=> (self.bundler = "watchify")

\* C8: in part_000 every bundler update emits 'update'; with options.rebundle
\* false it does nothing else (no stream, no 'rebundle', no timer); with
\* options.rebundle true or omitted and no open stream it creates a ReBundle
\* stream, makes it the open stream and emits 'rebundle' with it.
C8_RebundleOption ==
    [][(ver = "part_000" /\ NumUpdates' = NumUpdates + 1) =>
       \A o \in Options : self = GulpWatchify(ver, o) =>
         /\ Len(events') > Len(events)
         /\ events'[Len(events) + 1].type = "update"
         /\ IF o.rebundle = "false"
            THEN /\ Len(events') = Len(events) + 1
                 /\ streams' = <<>>
                 /\ rebundleStream' = 0
                 /\ rebundleTimeout' = 0
                 /\ timers' = {}
            ELSE rebundleStream = 0 =>
                    /\ Len(streams') = Len(streams) + 1
                    /\ rebundleStream' = Len(streams')
                    /\ Len(events') = Len(events) + 4
                    /\ events'[Len(events) + 2].type = "new"
                    /\ events'[Len(events) + 3].type = "rebundle"
                    /\ events'[Len(events) + 3].stream = Len(streams')
                    /\ timers' = {[handle |-> rebundleTimeout', stream |-> Len(streams')]}
      ]_vars

\* part_000 with rebundle false saw bundler updates
C8_Witness ==
    /\ ver = "part_000"
    /\ \E o \in Options : o.rebundle = "false" /\ self = GulpWatchify(ver, o)
    /\ NumUpdates = 2
    /\ streams = <<>>

\* C9: in index.js options.rebundle alone decides: false means no ReBundle
\* stream is ever created, true or omitted means an update creates one,
\* whatever options.skipError is.
C9_RebundleAlone ==
    \A o \in Options :
       (ver = "index.js" /\ self = GulpWatchify(ver, o)) =>
          /\ o.rebundle = "false" => streams = <<>>
          /\ (o.rebundle # "false" /\ NumUpdates >= 1) => streams # <<>>

\* the bundler this._bundlers holds for a property name: the one the latest
\* accepted entry with that path created
LatestBundler(p) ==
    LET S == {written[i].bundler : i \in {j \in Indices(written) : written[j].file.path = p}} \ {0}
    IN IF S = {} THEN 0 ELSE Max(S)

\* C10: an entry without a path is never bundled: its transform completes
\* once, with PluginError 'Expected a source file with a path', no bundler
\* is created for it, no file is pushed for it, and this._bundlers holds
\* exactly the bundlers of the entries that have a path.
C10_NoPathRejected ==
    /\ \A i \in Indices(written) :
          ~Truthy(written[i].file.path) =>
             /\ written[i].st \in {"buffered", "invalid"}
             /\ written[i].bundler = 0
             /\ PushesFor(out, i) = {}
             /\ written[i].st = "invalid" =>
                   /\ written[i].err = PluginError(<<"Expected a source file with a path">>)
                   /\ written[i].dones = 1
    /\ \A i \in Indices(written) : written[i].st = "invalid" => ~Truthy(written[i].file.path)
    /\ \A p \in Paths : bundlers[p] = IF Truthy(p) THEN LatestBundler(p) ELSE 0

\* an entry without a path was rejected after another entry was bundled
C10_Witness ==
    /\ Len(written) = 2
    /\ written[1].st = "ok"
    /\ written[2].st = "invalid"
    /\ bundlers[written[1].file.path] = 1

\* C11: in part_000 and part_001 an error of an entry's first bundle call is
\* never skipped: the entry's transform callback is called once, with a
\* PluginError wrapping the error, and no file is pushed for the entry,
\* whatever skipUpdateError is.
C11_FirstBundleErrorFatal ==
    ver \in {"part_000", "part_001"} =>
       \A i \in Indices(written) :
          /\ written[i].st # "skipped"
          /\ written[i].st = "err" =>
                /\ written[i].err = PluginError(Error)
                /\ written[i].dones = 1
                /\ PushesFor(out, i) = {}

\* with skipUpdateError true the first bundle of the second entry failed
C11_Witness ==
    /\ ver \in {"part_000", "part_001"}
    /\ self.skipUpdateError = "true"
    /\ Len(written) = 2
    /\ written[1].st = "ok"
    /\ written[2].st = "err"

\* C12: in part_000, with options.skipUpdateError true or omitted a bundle
\* error during a rebundle is skipped: the entry's transform callback is
\* called once without an error, no file is pushed for the entry, and the
\* entries written to the stream after it are still bundled (none waits
\* while no bundle call is in flight) and pushed; with skipUpdateError
\* false the entry's transform callback gets a PluginError wrapping the
\* error and no file is pushed for the entry.
C12_RebundleErrorSkip ==
    ver = "part_000" =>
       \A id \in Indices(streams) :
          LET ws == streams[id].writes
              log == streams[id].out IN
          (\E k \in Indices(ws) : ws[k].st \in {"skipped", "err"}) =>
             \A o \in [skipUpdateError : OptionValues] :
                self.skipUpdateError = SkipUpdateErrorField(o) =>
                IF o.skipUpdateError # "false"
                THEN \A k \in Indices(ws) :
                        /\ ws[k].st # "err"
                        /\ ws[k].err = NoError
                        /\ ws[k].st = "skipped" =>
                              /\ ws[k].dones = 1
                              /\ PushesFor(log, k) = {}
                              /\ \A k2 \in Indices(ws) : k2 > k =>
                                    /\ ws[k2].st = "buffered" => Bundling(ws) # {}
                                    /\ ws[k2].st = "ok" =>
                                          Cardinality(PushesFor(log, k2) \ LatePushes(log)) = 1
                ELSE \A k \in Indices(ws) :
                        /\ ws[k].st # "skipped"
                        /\ ws[k].st = "err" =>
                              /\ ws[k].err = PluginError(Error)
                              /\ ws[k].dones = 1
                              /\ PushesFor(log, k) = {}

\* with skipUpdateError omitted the first rebundle of a stream failed and
\* the entry written after it was bundled and pushed
C12_Witness ==
    /\ ver = "part_000"
    /\ self.skipUpdateError = SkipUpdateErrorField([skipUpdateError |-> Undefined])
    /\ \E id \in Indices(streams) :
          /\ Len(streams[id].writes) = 2
          /\ streams[id].writes[1].st = "skipped"
          /\ streams[id].writes[2].st = "ok"
          /\ Len(Files(streams[id].out)) = 1

\* C13: in index.js options.skipError decides for every bundle error, of a
\* first bundle and of a rebundle alike: with skipError false the transform
\* callback gets a PluginError wrapping the error and the error is never
\* skipped; with skipError true or omitted the error is skipped, never
\* handed to the callback, and no file is pushed for the entry.
C13_SkipErrorDecides ==
    ver = "index.js" =>
       \A o \in Options : self = GulpWatchify(ver, o) =>
          LET Decided(ws, log) ==
                 \A k \in Indices(ws) :
                    IF o.skipError = "false"
                    THEN /\ ws[k].st # "skipped"
                         /\ ws[k].st = "err" =>
                               ws[k].err = PluginError(Error) /\ PushesFor(log, k) = {}
                    ELSE /\ ws[k].st # "err"
                         /\ ws[k].st = "skipped" =>
                               ws[k].err = NoError /\ PushesFor(log, k) = {}
          IN /\ Decided(written, out)
             /\ \A id \in Indices(streams) : Decided(streams[id].writes, streams[id].out)

\* positions in the log of the events of a type that concern stream id
EventsAt(type, id) ==
    {j \in Indices(events) : events[j].type = type /\ events[j].stream = id}

\* C14: for every ReBundle stream 'rebundle' is emitted exactly once, with
\* the stream that new ReBundle just created, and before the first write to
\* that stream; every file the stream pushes comes from one of these writes,
\* so from after the event.
C14_RebundleOncePerStream ==
    /\ \A id \in Indices(streams) :
          LET emits == EventsAt("rebundle", id)
              writes == EventsAt("write", id) IN
          /\ Cardinality(emits) = 1
          /\ writes # {}
          /\ \A r \in emits :
                /\ r > 1 /\ events[r - 1].type = "new" /\ events[r - 1].stream = id
                /\ \A w \in writes : r < w
          /\ \A j \in Indices(streams[id].out) :
                IsFile(streams[id].out[j]) =>
                   streams[id].out[j].chunk \in 1..Cardinality(writes)
    /\ \A j \in Indices(events) :
          events[j].type = "rebundle" => events[j].stream \in Indices(streams)

\* two ReBundle streams were created and each pushed a file
C14_Witness ==
    /\ Len(streams) = 2
    /\ Len(EventsOf("rebundle")) = 2
    /\ \A id \in Indices(streams) : Len(Files(streams[id].out)) = 1

\* positions of the 'update' events logged after position t
UpdatesAfter(t) == {u \in Indices(events) : u > t /\ events[u].type = "update"}

\* C15: in part_000, after the timer callback of a ReBundle stream ran, no
\* entry is written to that stream any more, and the first update after it
\* creates another stream, emits 'rebundle' with it and writes its entry to
\* it, whether or not the earlier stream has pushed null.
C15_NewStreamAfterTimer ==
    ver = "part_000" =>
       \A t \in Indices(events) :
          events[t].type = "timeout" =>
             /\ \A w \in Indices(events) :
                   (w > t /\ events[w].type = "write") => events[w].stream # events[t].stream
             /\ UpdatesAfter(t) # {} =>
                   LET u == Min(UpdatesAfter(t)) IN
                   /\ Len(events) >= u + 3
                   /\ events[u + 1].type = "new"
                   /\ events[u + 2].type = "rebundle"
                   /\ events[u + 3].type = "write"
                   /\ events[u + 1].stream > events[t].stream
                   /\ events[u + 2].stream = events[u + 1].stream
                   /\ events[u + 3].stream = events[u + 1].stream
                   /\ events[u + 1].stream \in Indices(streams)

\* an update arrived after the timer of the first stream fired and while
\* that stream still waited for a bundle callback
C15_Witness ==
    /\ ver = "part_000"
    /\ Len(streams) = 2
    /\ streams[1].timerFired
    /\ ~HasEOF(streams[1].out)
    /\ Bundling(streams[1].writes) # {}
    /\ Len(streams[2].writes) = 1

\* C16: in index.js and part_001 a ReBundle stream that pushed null has no
\* bundle call awaiting its callback, and no file is pushed to a stream
\* after null.
C16_NoPushAfterTimerEnd ==
    ver \in {"index.js", "part_001"} =>
       \A id \in Indices(streams) :
          /\ HasEOF(streams[id].out) => Bundling(streams[id].writes) = {}
          /\ LatePushes(streams[id].out) = {}

\* what holds of stream id when it signals end: every update with rebundling
\* on wrote one entry to the open stream (repeated updates of an entry are
\* not merged), every entry's transform completed exactly once, no entry is
\* queued, and with all bundles succeeding one file per written entry was
\* pushed, all before null
BundledBeforeEnd(id) ==
    LET ws == streams[id].writes
        log == streams[id].out
        calls == WritesTo(id) IN
    /\ Len(ws) = Len(calls)
    /\ \A k \in Indices(ws) :
          /\ ws[k].file = calls[k].file
          /\ ws[k].dones = IF ws[k].st \in {"ok", "skipped", "err"} THEN 1 ELSE 0
          /\ ws[k].st = "buffered" => ~HasEOF(log)
    /\ HasEOF(log) =>
          /\ \A k \in Indices(ws) : ws[k].st \in {"ok", "skipped"}
          /\ LatePushes(log) = {}
          /\ (\A k \in Indices(ws) : ws[k].st = "ok") =>
                /\ Len(Files(log)) = Len(ws)
                /\ \A k \in Indices(ws) : Cardinality(PushesFor(log, k)) = 1

C18_CounterInvariant ==
    ver = "part_000" =>
       \A id \in Indices(streams) :
          /\ streams[id].unresolvedAsyncs >= 0
          /\ streams[id].unresolvedAsyncs =
                Cardinality(Bundling(streams[id].writes))
                + (IF streams[id].timerFired THEN 0 ELSE 1)

\* C19: at most one timer is pending; a pending timer is the one armed by
\* the latest update (its handle is this._rebundleTimeout, its stream the
\* open stream) and an update with rebundling on leaves exactly one pending;
\* a timer callback runs at most once per ReBundle stream, and when it runs
\* the latest update is the one that armed it (no update arrived since).
C19_SingleTimer ==
    /\ Cardinality(timers) <= 1
    /\ \A t \in timers :
          /\ t.handle = rebundleTimeout
          /\ t.handle = Len(EventsOf("write"))
          /\ t.stream = rebundleStream
          /\ events[Len(events)].type = "write"
          /\ events[Len(events)].stream = t.stream
    /\ (events # <<>> /\ events[Len(events)].type = "write") => Cardinality(timers) = 1
    /\ \A id \in Indices(streams) :
          /\ Cardinality(EventsAt("timeout", id)) <= 1
          /\ streams[id].timerFired <=> EventsAt("timeout", id) # {}
    /\ \A j \in Indices(events) :
          events[j].type = "timeout" =>
             /\ j > 1
             /\ events[j - 1].type = "write"
             /\ events[j - 1].stream = events[j].stream

\* two updates armed a timer each, the second cancelled the first, and the
\* remaining timer fired
C19_Witness ==
    /\ rebundleTimeout = 2
    /\ timers = {}
    /\ Len(streams) = 1
    /\ Len(streams[1].writes) = 2
    /\ streams[1].timerFired
    /\ Len(EventsOf("timeout")) = 1

\* C20: 'update' is emitted once for every 'update' a bundler emitted, in
\* order, with the entry file the bundler was created for and the bundler,
\* also when rebundling is off; and every new ReBundle, emit('rebundle') and
\* write of _handleUpdate comes after the 'update' emitted for the same
\* bundler update, with nothing but calls of that _handleUpdate in between.
C20_UpdateFirst ==
    /\ LET emitted == EventsOf("update") IN
       /\ Len(emitted) = Len(updated)
       /\ \A k \in Indices(updated) :
             /\ emitted[k].bundler = updated[k]
             /\ emitted[k].file = written[EntryOf(updated[k])].file
    /\ ~Truthy(self.rebundle) => Len(events) = Len(updated)
    /\ \A j \in Indices(events) :
          events[j].type \in {"new", "rebundle", "write"} =>
             \E u \in 1..(j - 1) :
                /\ events[u].type = "update"
                /\ events[u].file = events[j].file
                /\ events[u].bundler = events[j].bundler
                /\ \A m \in (u + 1)..(j - 1) : events[m].type \in {"new", "rebundle"}

\* the bundlers of two entries emitted 'update' with rebundling on
C20_Witness ==
    /\ Truthy(self.rebundle)
    /\ updated = <<1, 2>>
    /\ Len(EventsOf("update")) = 2
    /\ Len(EventsOf("write")) = 2

\* the transform calls of a stream that have returned through done: each of
\* them called done once, and the calls still queued or waiting for their
\* bundle callback have not called it
DoneOnce(ws) ==
    \A k \in Indices(ws) :
       ws[k].dones = IF ws[k].st \in {"ok", "skipped", "err", "invalid"} THEN 1 ELSE 0

====
